---- MODULE Spec2Model ----
(***************************************************************************)
(* A model of botfjord's Monte Carlo tree search (src/src/mcts.rs), its    *)
(* static evaluator (src/src/eval.rs) and the parallel aggregator          *)
(* search_tree (src/src/lib.rs).                                           *)
(*                                                                         *)
(* Two entry points are modelled, chosen in Init by `mode`:                *)
(*   "search"      one call of Tree::search, step by step (one worker's    *)
(*                 tree: descent, expansion, backpropagation, stop checks) *)
(*   "search_tree" one call of search_tree: the spawned workers, the mpsc  *)
(*                 channel, the drain loop, the sort and the returned move.*)
(*                 A worker's Tree::search is taken there by its return    *)
(*                 value (the fast path exactly, otherwise any visit count *)
(*                 per legal move in any HashMap order).                   *)
(*                                                                         *)
(* The chess crate is not part of the repository.  It is replaced by a     *)
(* small abstract game that honours the crate's contract: a position is a  *)
(* value, legal moves are a function of the position, a position without   *)
(* legal moves is Checkmate or Stalemate, every other one is Ongoing.      *)
(*                                                                         *)
(* The pure functions uci, Evaluator::priors and Evaluator::evaluate are   *)
(* also followed on their own, one call per behaviour (modes "uci",        *)
(* "priors", "evaluate").                                                  *)
(*                                                                         *)
(* Numbers.  f32 values are integers in fixed units: evaluator values in   *)
(* hundredths (0.1 is 10, -39.0 is -3900), priors in thousandths, visit    *)
(* counts in units of one.  Adding 1.0 to an f32 is FInc, which stops      *)
(* counting at 2^24 as an f32 does.                                        *)
(***************************************************************************)
EXTENDS Integers, Sequences, FiniteSets, TLC

\* ------------------------------------------------------------------ bounds
\* Iterations of the search loop the model follows before it stops exploring.
MaxIter == 3
\* Largest number of worker threads search_tree is called with.
MaxProcesses == 2
\* Most iterations one worker completes, so the most visits it reports (mode
\* "search_tree").
MaxVisits == 1
\* How far around the dominance threshold the counters of mode "checks" go.
StopSpread == 2
\* Largest population generate_new_population is called with.
MaxPopulation == 12

\* ------------------------------------------------------- program constants
MateValue == 3900
MateScore == 16
SideToMoveBonus == 10
PawnValue == 82
EgPawnValue == 94
RookValue == 477
EgRookValue == 512
RookPhase == 2
TotalPhase == 24
PriorScale == 1000
NoiseAlpha == 3
RatioMinimum == 50000
F32ExactMax == 16777216

\* ------------------------------------------------------------ small helpers
Max(S) == CHOOSE x \in S : \A y \in S : y <= x
Min(S) == CHOOSE x \in S : \A y \in S : x <= y
Abs(x) == IF x < 0 THEN -x ELSE x

RECURSIVE SumOver(_, _)
SumOver(f, S) ==
    IF S = {} THEN 0
    ELSE LET x == CHOOSE y \in S : TRUE IN f[x] + SumOver(f, S \ {x})

\* All orders in which a hash map with key set S can be iterated.
Perms(S) ==
    {p \in [1..Cardinality(S) -> S] : \A a, b \in 1..Cardinality(S) : p[a] = p[b] => a = b}

Reverse(s) == [k \in 1..Len(s) |-> s[Len(s) + 1 - k]]

\* x + 1.0 in f32: exact below 2^24, without effect from there on.
FInc(x) == IF x >= F32ExactMax THEN x ELSE x + 1

\* ------------------------------------------------- the chess collaborator
Moves == {"q", "x", "c", "m", "s", "p"}
NoMove == "none"
Other(c) == IF c = "w" THEN "b" ELSE "w"

\* A position: side to move, number of white and black pieces (kings
\* included, pawns not), whether the side to move is in check, the status,
\* and the side that has a pawn on its seventh rank ("w", "b" or
\* neither).
NoPawn == "none"
Board(stm, w, b, chk, st) ==
    [stm |-> stm, w |-> w, b |-> b, chk |-> chk, st |-> st, pawn |-> NoPawn]
BoardPawn(stm, w, b, chk, pawn) == [Board(stm, w, b, chk, "Ongoing") EXCEPT !.pawn = pawn]
Pawns(s, c) == IF s.pawn = c THEN 1 ELSE 0
Own(s) == IF s.stm = "w" THEN s.w ELSE s.b
Opp(s) == IF s.stm = "w" THEN s.b ELSE s.w

\* "q" a quiet move, "x" a capture, "c" a check, "m" a mating move, "s" a
\* move that stalemates the opponent, "p" a promotion (the pawn becomes a
\* piece).  In check the side to move has its king move and, with a pawn to
\* promote, the promotion that answers the check.
LegalMoves(s) ==
    IF s.st # "Ongoing" THEN {}
    ELSE IF s.chk THEN {"q"} \cup (IF s.pawn = s.stm THEN {"p"} ELSE {})
    ELSE {"q"}
         \cup (IF Opp(s) > 1 THEN {"x"} ELSE {})
         \cup (IF Own(s) > 1 THEN {"c"} ELSE {})
         \cup (IF Own(s) > 1 /\ Opp(s) = 1 THEN {"m", "s"} ELSE {})
         \cup (IF s.pawn = s.stm THEN {"p"} ELSE {})

MakeMove(s, m) ==
    LET w1 == IF m = "x" /\ s.stm = "b" THEN s.w - 1 ELSE s.w
        b1 == IF m = "x" /\ s.stm = "w" THEN s.b - 1 ELSE s.b
        w2 == IF m = "p" /\ s.stm = "w" THEN w1 + 1 ELSE w1
        b2 == IF m = "p" /\ s.stm = "b" THEN b1 + 1 ELSE b1
    IN [Board(Other(s.stm), w2, b2, m \in {"c", "m"},
              CASE m = "m" -> "Checkmate"
                [] m = "s" -> "Stalemate"
                [] OTHER -> "Ongoing")
          EXCEPT !.pawn = IF m = "p" THEN NoPawn ELSE s.pawn]

Status(s) == s.st

\* ------------------------------------------------------------ the evaluator
\* Every piece but the kings and the pawn is taken to be a rook;
\* piece-square tables need squares, which the abstract positions do not
\* carry.

\* `phase` is a usize that starts at TOTAL_PHASE, the phase weight of the
\* pieces of the starting position; with more weight on the board (a pawn
\* promoted while no piece is missing) `phase -= ...` goes below zero.
PhaseOverflows(s) ==
    /\ Status(s) # "Checkmate"
    /\ ((s.w - 1) + (s.b - 1)) * RookPhase > TotalPhase

\* Without overflow checks the subtraction wraps and phase is about 2^64;
\* `phase * 256` wraps again and taper comes out at about 3.0e15.  The model
\* holds that taper as WrappedTaper, a smaller number that leaves the values
\* far outside the range of material as the real one does.
WrappedTaper == 1000

Evaluate(s) ==
    IF Status(s) = "Checkmate" THEN -MateValue
    ELSE LET rooks == (s.w - 1) + (s.b - 1)
             phase0 == TotalPhase - rooks * RookPhase
             phase == (phase0 * 256 + (TotalPhase \div 2)) \div TotalPhase
             taper == IF phase0 < 0 THEN WrappedTaper ELSE phase \div 256
             pawn == PawnValue * (1 - taper) + EgPawnValue * taper
             rook == RookValue * (1 - taper) + EgRookValue * taper
         IN SideToMoveBonus
              + rook * (Own(s) - 1) + pawn * Pawns(s, s.stm)
              - rook * (Opp(s) - 1) - pawn * Pawns(s, Other(s.stm))

\* The closure `score` of Evaluator::priors, for the position after a move.
PriorScore(ns) ==
    IF Status(ns) = "Checkmate" THEN -MateScore
    ELSE LET piece_diff == (ns.w + Pawns(ns, "w")) - (ns.b + Pawns(ns, "b"))
         IN IF ns.stm = "w" THEN piece_diff ELSE -piece_diff

\* Evaluator::priors.  A value is a pair <<a, e>> standing for a + e * 1e-7:
\* the 1e-7 terms decide the result only when the whole parts cancel.  The
\* pairs are kept in quarters so that the factor 1.25 stays whole.
Priors(s) ==
    LET legal == LegalMoves(s)
        sc == [a \in legal |-> PriorScore(MakeMove(s, a))]
    IN IF legal = {} THEN [a \in {} |-> 0]
       ELSE
       LET minS == Min({sc[a] : a \in legal})
           maxS == Max({sc[a] : a \in legal})
           \* abs_min = |min + 1e-7|
           absA == Abs(minS)
           absE == IF minS < 0 THEN -1 ELSE 1
           \* max = (max + abs_min) * 1.25, in quarters
           maxA == 5 * (maxS + absA)
           maxE == 5 * (1 + absE)
           newA == [a \in legal |-> maxA - 4 * (sc[a] + absA)]
           newE == [a \in legal |-> maxE - 4 * (1 + absE)]
           sumA == SumOver(newA, legal)
           sumE == SumOver(newE, legal)
       IN [a \in legal |->
              IF sumA > 0 THEN (newA[a] * PriorScale) \div sumA
              ELSE (newE[a] * PriorScale) \div (sumE + 4)]

\* --------------------------------------------------------------- variables
VARIABLES
    mode,        \* "search", "search_tree", "checks" or "earlier"
    overflow_checks, \* whether the build panics on integer overflow (debug
                 \* profile) or wraps (release profile)
    \* Tree::search
    state,       \* the position searched
    limit,       \* Limit {time, nodes}
    noise,       \* Tree.noise
    pc,          \* where the call of search stands
    tree,        \* the nodes reachable from root, by the path of moves to them
    node,        \* the loop's `node`: a path
    next_move,   \* the loop's `next_move`
    child_node,  \* the loop's `child_node`: <<>> or <<Node>>
    action,      \* backpropagation's `action`
    value,       \* backpropagation's `value`
    i,           \* the iteration counter `i`
    results,     \* what search returns
    iters,       \* history: iterations completed
    evals,       \* history: calls of the evaluator
    visited,     \* history: record_visit calls of the iteration under way
    \* search_tree
    processes,   \* the argument `processes`
    a_pc,        \* where the calling thread stands
    move_dict,   \* the aggregate
    hash_order,  \* the iteration order of move_dict
    tx_main,     \* whether the calling thread still holds tx_mtx
    chan,        \* the channel: messages sent and not yet received
    w_pc,        \* each worker's position
    w_results,   \* each worker's `results`: the visits it reports per move
    w_unsent,    \* the moves whose pair it has not sent yet
    sorted,      \* the caller's `results` vector
    ret,         \* the move returned
    \* one call of a pure function (modes "uci", "priors", "evaluate",
    \* "generate_new_population")
    call_pc,     \* "idle" (other modes), "call", "done" or "panic"
    call_arg,    \* the argument
    call_ret     \* the value returned

searchVars == <<state, limit, noise, pc, tree, node, next_move, child_node, action,
                value, i, results, iters, evals, visited>>
aggVars == <<processes, a_pc, move_dict, hash_order, tx_main, chan, w_pc, w_results,
             w_unsent, sorted, ret>>
callVars == <<call_pc, call_arg, call_ret>>
vars == <<mode, overflow_checks, searchVars, aggVars, callVars>>

\* ------------------------------------------------------------------ inputs
\* All pieces of the starting position on the board, White in check with a
\* pawn on the seventh rank: a king move and the promotion are legal, and
\* the promotion leads to a position on which evaluate overflows.
HeavyRoot == BoardPawn("w", 7, 7, TRUE, "w")

\* Positions search is started from: three, four and two legal moves, one
\* legal move (bare kings; a king in check), and none (mate, stalemate).
RootStates ==
    { HeavyRoot,
      Board("w", 2, 2, FALSE, "Ongoing"),
      Board("w", 2, 1, FALSE, "Ongoing"),
      Board("b", 2, 1, FALSE, "Ongoing"),
      Board("b", 1, 1, FALSE, "Ongoing"),
      Board("b", 2, 2, TRUE, "Ongoing"),
      Board("b", 2, 1, TRUE, "Checkmate"),
      Board("b", 2, 1, FALSE, "Stalemate") }

\* Positions search_tree is called with.
AggRootStates ==
    { HeavyRoot,
      Board("b", 2, 1, FALSE, "Ongoing"),
      Board("b", 1, 1, FALSE, "Ongoing"),
      Board("b", 2, 1, TRUE, "Checkmate"),
      Board("b", 2, 1, FALSE, "Stalemate") }

\* Limit::new: an absent field is 0.0.
LimitNew(time, nodes) == [time |-> time, nodes |-> nodes]
Limits == {LimitNew(t, n) : t \in {0, 1}, n \in {0, 2, MaxIter + 1}}

\* --------------------------------------------------------- Branch and Node
NoParent == <<NoMove>>
Root == <<>>

BranchNew(prior) == [prior |-> prior, visit_count |-> 0, total_value |-> 0]

\* A node that starts with no visit counted.
NodeNewUnvisited(s, v, priors, parent, last_move) ==
    [state |-> s,
     value |-> v,
     parent |-> parent,
     last_move |-> last_move,
     total_visit_count |-> 0,
     branches |-> [a \in LegalMoves(s) |-> BranchNew(priors[a])],
     children |-> [a \in {} |-> Root]]

\* A node that keeps a branch only for the moves of positive prior.
NodeNewPositivePriors(s, v, priors, parent, last_move) ==
    [state |-> s,
     value |-> v,
     parent |-> parent,
     last_move |-> last_move,
     total_visit_count |-> 1,
     branches |-> [a \in {m \in LegalMoves(s) : priors[m] > 0} |-> BranchNew(priors[a])],
     children |-> [a \in {} |-> Root]]

\* Node::new.  priors.get(&action).unwrap() needs a prior for every legal move.
NodeNew(s, v, priors, parent, last_move) ==
    [state |-> s,
     value |-> v,
     parent |-> parent,
     last_move |-> last_move,
     total_visit_count |-> 1,
     branches |-> [a \in LegalMoves(s) |-> BranchNew(priors[a])],
     children |-> [a \in {} |-> Root]]

NodeMoves(n) == DOMAIN n.branches

\* A node that never says it has a child.
HasChildNever(n, a) == FALSE

HasChild(n, a) == a \in DOMAIN n.children
GetChild(n, a) == n.children[a]
AddChild(n, a, child) ==
    [n EXCEPT !.children = [b \in (DOMAIN n.children) \cup {a} |->
                               IF b = a THEN child ELSE n.children[b]]]

ExpectedValue(n, a) ==
    IF n.branches[a].visit_count = 0 THEN 0
    ELSE n.branches[a].total_value \div n.branches[a].visit_count

VisitCount(n, a) == IF a \in DOMAIN n.branches THEN n.branches[a].visit_count ELSE 0

\* record_visit that adds the value without counting the visit on the branch.
RecordVisitNoBranchCount(n, a, v) ==
    [n EXCEPT !.branches[a].total_value = @ + v,
              !.total_visit_count = FInc(@)]

\* record_visit that counts the visit on every branch of the node.
RecordVisitAllBranches(n, a, v) ==
    [n EXCEPT !.branches = [b \in DOMAIN n.branches |->
                               [n.branches[b] EXCEPT !.visit_count = FInc(@),
                                                     !.total_value = @ + v]],
              !.total_visit_count = FInc(@)]

\* record_visit that keeps the last value instead of the sum.
RecordVisitLastValue(n, a, v) ==
    [n EXCEPT !.branches[a].visit_count = FInc(@),
              !.branches[a].total_value = v,
              !.total_visit_count = FInc(@)]

\* record_visit that counts the visit twice.
RecordVisitTwice(n, a, v) ==
    [n EXCEPT !.branches[a].visit_count = FInc(FInc(@)),
              !.branches[a].total_value = @ + v,
              !.total_visit_count = FInc(FInc(@))]

\* record_visit that forgets the node's own counter.
RecordVisitBranchOnly(n, a, v) ==
    [n EXCEPT !.branches[a].visit_count = FInc(@),
              !.branches[a].total_value = @ + v]

RecordVisit(n, a, v) ==
    [n EXCEPT !.branches[a].visit_count = FInc(@),
              !.branches[a].total_value = @ + v,
              !.total_visit_count = FInc(@)]

\* The visit counts of a node's branches, highest first.
RECURSIVE SortedVisits(_, _)
SortedVisits(n, S) ==
    IF S = {} THEN <<>>
    ELSE LET a == CHOOSE x \in S : \A y \in S : VisitCount(n, y) <= VisitCount(n, x)
         IN <<VisitCount(n, a)>> \o SortedVisits(n, S \ {a})

\* A search that never stops ahead of its node budget.
CheckVisitCountsNever(n, rounds) == FALSE

CheckVisitCounts(n, rounds) ==
    LET branches == SortedVisits(n, NodeMoves(n))
        remaining_rounds == rounds - n.total_visit_count
    IN branches[1] >= branches[2] + remaining_rounds

\* A minimum that the total has to exceed, not only to reach.
CheckVisitRatioAboveMinimum(n, factor, minimum) ==
    IF n.total_visit_count <= minimum THEN FALSE
    ELSE Max({VisitCount(n, a) : a \in NodeMoves(n)}) * 10 > n.total_visit_count * factor

\* factor is given in tenths.  The f32 product total_visit_count * 0.90 leads
\* to the same answer as the exact product for every total below 4660341;
\* from there on a leader that passes the threshold by a tenth of a visit is
\* seen one iteration late.
CheckVisitRatio(n, factor, minimum) ==
    IF n.total_visit_count < minimum THEN FALSE
    ELSE Max({VisitCount(n, a) : a \in NodeMoves(n)}) * 10 > n.total_visit_count * factor

\* -------------------------------------------------------------------- Tree
\* Dirichlet::new_with_size(noise, size).sample(): a vector of `size`
\* components that sum to 1, in thousandths.  The model draws the corners of
\* the simplex (all weight on one component).
DirichletSamples(size) ==
    {[k \in 1..size |-> IF k = hot THEN PriorScale ELSE 0] : hot \in 1..size}

\* priors.iter().zip(samples): the k-th move of the priors map, in the order
\* the map is iterated, is paired with the k-th component.  The noise each
\* move gets, for every order of the map and every sample.
NoiseSamples(legal) ==
    {[a \in legal |-> samples[CHOOSE k \in 1..Cardinality(legal) : order[k] = a]] :
        order \in Perms(legal), samples \in DirichletSamples(Cardinality(legal))}

\* A mix that keeps the noise and drops the evaluator's prior.
MixNoiseOnly(priors, sample) == [a \in DOMAIN priors |-> sample[a]]

\* new_priors.insert(*action, (value * 0.5) + (noise * 0.5))
MixNoise(priors, sample) == [a \in DOMAIN priors |-> (priors[a] + sample[a]) \div 2]

\* Tree::create_node calls evaluator.evaluate(state), which panics in a build
\* with overflow checks when the phase subtraction overflows.
EvaluatePanics(s) == overflow_checks /\ PhaseOverflows(s)

\* create_node that leaves the node without parent reference.
CreateNodeParentless(s, a, parent) ==
    LET priors == Priors(s)
        v == Evaluate(s)
        move_count == Cardinality(LegalMoves(s))
    IN IF noise # 0 /\ move_count > 1
       THEN {NodeNew(s, v, MixNoise(priors, z), NoParent, a) : z \in NoiseSamples(LegalMoves(s))}
       ELSE {NodeNew(s, v, priors, NoParent, a)}

\* create_node that forgets the move that led to the node.
CreateNodeNoLastMove(s, a, parent) ==
    LET priors == Priors(s)
        v == Evaluate(s)
        move_count == Cardinality(LegalMoves(s))
    IN IF noise # 0 /\ move_count > 1
       THEN {NodeNew(s, v, MixNoise(priors, z), parent, NoMove) : z \in NoiseSamples(LegalMoves(s))}
       ELSE {NodeNew(s, v, priors, parent, NoMove)}

\* Tree::create_node: the nodes it can return, one per noise sample.
CreateNode(s, a, parent) ==
    LET priors == Priors(s)
        v == Evaluate(s)
        move_count == Cardinality(LegalMoves(s))
    IN IF noise # 0 /\ move_count > 1
       THEN {NodeNew(s, v, MixNoise(priors, z), parent, a) : z \in NoiseSamples(LegalMoves(s))}
       ELSE {NodeNew(s, v, priors, parent, a)}

\* Tree::select_branch returns the move of highest score
\*   q + c * p * sqrt(ln(N) / (n + 1e-7)),
\* the last such move in the iteration order of the branches map.  The
\* exploration constant c is any f32 and the order of a HashMap is not fixed,
\* so every move of the node can be the one returned.  On a node not visited
\* yet N is 1 and ln(N) is 0: every move scores q = 0 whatever c and the
\* priors are, and the order of the map alone decides.
SelectCandidates(n) == NodeMoves(n)

\* A result vector that leaves out the moves never visited.
CollectResultsVisitedOnly(root) ==
    LET seen == {a \in NodeMoves(root) : VisitCount(root, a) > 0}
    IN {[k \in 1..Cardinality(seen) |-> <<order[k], VisitCount(root, order[k])>>] :
          order \in Perms(seen)}

\* The result vector: one pair per branch of the root, in the map's order.
CollectResults(root) ==
    {[k \in 1..Cardinality(NodeMoves(root)) |-> <<order[k], VisitCount(root, order[k])>>] :
        order \in Perms(NodeMoves(root))}

\* ----------------------------------------------------------- Tree::search
\* A search without the fast path.
IsSingleMoveNever(s) == FALSE

\* if MoveGen::new_legal(&state).len() == 1
IsSingleMove(s) == Cardinality(LegalMoves(s)) = 1

\* Every expanded child is linked but a checkmated one.
LinksChildUnlessMate(new_state) == Status(new_state) # "Checkmate"

\* Every expanded child is linked, terminal or not.
LinksChildAlways(new_state) == TRUE

\* if new_state.status() == BoardStatus::Ongoing { add_child }
LinksChild(new_state) == Status(new_state) = "Ongoing"

\* Backpropagation that keeps the sign.
FlipNot(v) == v

\* value = -child_node.borrow().value, and value = -value at every ply
Flip(v) == -v

\* An entry that tests the limits before the first iteration, as a loop
\* with its stop checks at the top would.
SearchCallChecksFirst ==
    /\ mode = "search" /\ pc = "call"
    /\ IF IsSingleMove(state)
       THEN /\ results' = <<<<CHOOSE m \in LegalMoves(state) : TRUE, 1>>>>
            /\ pc' = "done"
            /\ UNCHANGED <<tree, evals>>
       ELSE IF EvaluatePanics(state)
       THEN /\ pc' = "panic"
            /\ evals' = evals + 2
            /\ UNCHANGED <<tree, results>>
       ELSE /\ \E root \in CreateNode(state, NoMove, NoParent) : tree' = (Root :> root)
            /\ evals' = evals + 2
            /\ pc' = IF LegalMoves(state) = {} THEN "select" ELSE "check"
            /\ UNCHANGED results
    /\ UNCHANGED <<mode, overflow_checks, callVars, state, limit, noise, node, next_move, child_node, action, value,
                   i, iters, visited, aggVars>>

\* Entry: the single-move fast path, otherwise the root is created.
SearchCall ==
    /\ mode = "search" /\ pc = "call"
    /\ IF IsSingleMove(state)
       THEN /\ results' = <<<<CHOOSE m \in LegalMoves(state) : TRUE, 1>>>>
            /\ pc' = "done"
            /\ UNCHANGED <<tree, evals>>
       ELSE IF EvaluatePanics(state)
       THEN /\ pc' = "panic"
            /\ evals' = evals + 2
            /\ UNCHANGED <<tree, results>>
       ELSE /\ \E root \in CreateNode(state, NoMove, NoParent) : tree' = (Root :> root)
            /\ evals' = evals + 2
            /\ pc' = "select"
            /\ UNCHANGED results
    /\ UNCHANGED <<mode, overflow_checks, callVars, state, limit, noise, node, next_move, child_node, action, value,
                   i, iters, visited, aggVars>>

\* next_move = select_branch(node).  With no branch, moves()[0] panics.
SelectBranch ==
    /\ mode = "search" /\ pc = "select"
    /\ IF SelectCandidates(tree[node]) = {}
       THEN pc' = "panic" /\ UNCHANGED next_move
       ELSE \E m \in SelectCandidates(tree[node]) : next_move' = m /\ pc' = "descend"
    /\ UNCHANGED <<mode, overflow_checks, callVars, state, limit, noise, tree, node, child_node, action, value, i,
                   results, iters, evals, visited, aggVars>>

\* while node.has_child(next_move): follow the child.
Descend ==
    /\ mode = "search" /\ pc = "descend"
    /\ HasChild(tree[node], next_move)
    /\ node' = GetChild(tree[node], next_move)
    /\ pc' = "select"
    /\ UNCHANGED <<mode, overflow_checks, callVars, state, limit, noise, tree, next_move, child_node, action, value,
                   i, results, iters, evals, visited, aggVars>>

\* Expansion: the child is created, linked when its position is Ongoing, and
\* backpropagation starts with the negated value of the child.
Expand ==
    /\ mode = "search" /\ pc = "descend"
    /\ ~HasChild(tree[node], next_move)
    /\ LET new_state == MakeMove(tree[node].state, next_move)
           id == Append(node, next_move)
       IN IF EvaluatePanics(new_state)
          THEN /\ pc' = "panic"
               /\ UNCHANGED <<child_node, tree, action, value>>
          ELSE /\ \E child \in CreateNode(new_state, next_move, node) :
                    /\ child_node' = <<child>>
                    /\ tree' = IF LinksChild(new_state)
                               THEN (id :> child)
                                    @@ [tree EXCEPT ![node] = AddChild(@, next_move, id)]
                               ELSE tree
                    /\ action' = next_move
                    /\ value' = Flip(child.value)
               /\ pc' = "backprop"
    /\ evals' = evals + 2
    /\ UNCHANGED <<mode, overflow_checks, callVars, state, limit, noise, node, next_move, i, results, iters, visited,
                   aggVars>>

\* One turn of the backpropagation loop.
Backprop ==
    /\ mode = "search" /\ pc = "backprop"
    /\ tree' = [tree EXCEPT ![node] = RecordVisit(@, action, value)]
    /\ visited' = Append(visited, [node |-> node, action |-> action, value |-> value])
    /\ IF tree[node].last_move = NoMove
       THEN /\ pc' = "check"
            /\ iters' = iters + 1
            /\ UNCHANGED <<node, action, value>>
       ELSE IF tree[node].parent \in DOMAIN tree
       THEN /\ action' = tree[node].last_move
            /\ node' = tree[node].parent
            /\ value' = Flip(value)
            /\ UNCHANGED <<pc, iters>>
       ELSE /\ pc' = "panic"
            /\ UNCHANGED <<node, action, value, iters>>
    /\ UNCHANGED <<mode, overflow_checks, callVars, state, limit, noise, next_move, child_node, i, results, evals,
                   aggVars>>

\* A node budget that is looked at for every value, 0 included.
NodesActiveAlways(lim) == TRUE

\* if limit.nodes > 0.0
NodesActive(lim) == lim.nodes > 0

\* if limit.time > 0.0
TimeActive(lim) == lim.time > 0

\* The stop checks at the end of an iteration, in the order of the source;
\* `expired` is whether start_time.elapsed() has reached limit.time.
CheckStop ==
    /\ mode \in {"search", "checks"} /\ pc = "check"
    /\ \E expired \in BOOLEAN :
        LET root == tree[Root]
            byRatio == CheckVisitRatio(root, 9, RatioMinimum)
            byNodes == /\ ~byRatio
                       /\ NodesActive(limit)
                       /\ (i >= limit.nodes \/ CheckVisitCounts(root, limit.nodes))
            counted == ~byRatio /\ NodesActive(limit) /\ ~byNodes
            byTime == ~byRatio /\ ~byNodes /\ TimeActive(limit) /\ expired
        IN /\ i' = IF counted THEN FInc(i) ELSE i
           /\ IF byRatio \/ byNodes \/ byTime
              THEN /\ results' \in CollectResults(root)
                   /\ pc' = "done"
                   /\ UNCHANGED <<node, child_node>>
              ELSE /\ mode = "search" => iters < MaxIter
                   /\ pc' = "select"
                   /\ node' = Root
                   /\ child_node' = <<>>
                   /\ UNCHANGED results
    /\ visited' = <<>>
    /\ UNCHANGED <<mode, overflow_checks, callVars, state, limit, noise, tree, next_move, action, value, iters, evals,
                   aggVars>>

NextSearch == SearchCall \/ SelectBranch \/ Descend \/ Expand \/ Backprop \/ CheckStop

\* ------------------------------------------------------------- search_tree
Workers == 1..MaxProcesses
Spawned(w) == w_pc[w] # "unspawned"
\* A receive loop that does not wait for the workers' senders.
HoldsTxNever(w) == FALSE

\* A worker that keeps its clone of tx_mtx for ever.
HoldsTxAlways(w) == TRUE

\* A worker holds its clone of tx_mtx from the spawn to the end of its closure.
HoldsTx(w) == w_pc[w] \in {"search", "send"}

\* `visits as usize`: negative values saturate at 0.
AsUsize(v) == IF v < 0 THEN 0 ELSE v

\* An aggregate that stores the last count received instead of adding it.
AddVisitsOverwrite(dict, a, visits) == [dict EXCEPT ![a] = AsUsize(visits)]

\* *move_dict.get_mut(&action).unwrap() += visits as usize
AddVisits(dict, a, visits) == [dict EXCEPT ![a] = @ + AsUsize(visits)]

\* results.sort_by_key(|x| x.1): a stable sort, ascending by count.
RECURSIVE SortByKey(_)
SortByKey(s) ==
    IF s = <<>> THEN <<>>
    ELSE LET rest == SortByKey(SubSeq(s, 1, Len(s) - 1))
             x == s[Len(s)]
             before == SelectSeq(rest, LAMBDA y : y[2] <= x[2])
             after == SelectSeq(rest, LAMBDA y : y[2] > x[2])
         IN before \o <<x>> \o after

\* The sort without the reverse.
SortResultsAscending(v) == SortByKey(v)

\* The vector collected from move_dict, sorted and reversed.
SortResults(v) == Reverse(SortByKey(v))

\* A search whose fast path returns a null move instead of the legal one.
SearchReturnsNullMove(s) ==
    IF IsSingleMove(s)
    THEN {[m \in {NoMove} |-> 1]}
    ELSE {u \in [LegalMoves(s) -> 0..MaxVisits] : SumOver(u, LegalMoves(s)) \in 1..MaxVisits}

\* What Tree::search returns to a worker, as visits per move: the fast path
\* for a single legal move, otherwise one pair per legal move whose visits
\* add up to the iterations completed, of which there is at least one.  The
\* pairs are in the order of the root's HashMap; the model settles that order
\* as the pairs are sent (WorkerSend).
SearchReturns(s) ==
    IF IsSingleMove(s)
    THEN {[m \in LegalMoves(s) |-> 1]}
    ELSE {u \in [LegalMoves(s) -> 0..MaxVisits] : SumOver(u, LegalMoves(s)) \in 1..MaxVisits}

\* Whether a search that visits the root's moves as `r` says has panicked on
\* the way: it evaluated the root and the position after every visited move.
SearchPanics(s, r) ==
    /\ ~IsSingleMove(s)
    /\ \/ EvaluatePanics(s)
       \/ \E m \in LegalMoves(s) : r[m] > 0 /\ EvaluatePanics(MakeMove(s, m))

\* Lines 41-53: the aggregate is built from the legal moves, all at 0.
AggCall ==
    /\ mode = "search_tree" /\ a_pc = "call"
    /\ move_dict' = [a \in LegalMoves(state) |-> 0]
    /\ a_pc' = "spawn"
    /\ UNCHANGED <<mode, overflow_checks, callVars, searchVars, processes, hash_order, tx_main, chan, w_pc, w_results, w_unsent,
                   sorted, ret>>

\* One turn of the spawn loop.
AggSpawn ==
    /\ mode = "search_tree" /\ a_pc = "spawn"
    /\ \E w \in 1..processes :
        /\ ~Spawned(w)
        /\ \A u \in 1..(w - 1) : Spawned(u)
        /\ w_pc' = [w_pc EXCEPT ![w] = "search"]
    /\ UNCHANGED <<mode, overflow_checks, callVars, searchVars, processes, a_pc, move_dict, hash_order, tx_main, chan,
                   w_results, w_unsent, sorted, ret>>

\* drop(tx_mtx)
AggDropTx ==
    /\ mode = "search_tree" /\ a_pc = "spawn"
    /\ \A w \in 1..processes : Spawned(w)
    /\ tx_main' = FALSE
    /\ a_pc' = "drain"
    /\ UNCHANGED <<mode, overflow_checks, callVars, searchVars, processes, move_dict, hash_order, chan, w_pc,
                   w_results, w_unsent, sorted, ret>>

\* One turn of `for (action, visits) in rx`.
AggRecv ==
    /\ mode = "search_tree" /\ a_pc = "drain"
    /\ chan # <<>>
    /\ LET msg == Head(chan)
       IN IF msg[1] \in DOMAIN move_dict
          THEN move_dict' = AddVisits(move_dict, msg[1], msg[2]) /\ a_pc' = a_pc
          ELSE move_dict' = move_dict /\ a_pc' = "panic"
    /\ chan' = Tail(chan)
    /\ UNCHANGED <<mode, overflow_checks, callVars, searchVars, processes, hash_order, tx_main, w_pc, w_results, w_unsent,
                   sorted, ret>>

\* The items of the aggregate in the iteration order `order`.
DictItems(dict, order) == [k \in 1..Len(order) |-> <<order[k], dict[order[k]]>>]

\* The receive loop ends when the channel is empty and every sender is
\* dropped; lines 81-84 then copy the aggregate in the order of the HashMap,
\* which is any order of its keys.
AggCollect ==
    /\ mode = "search_tree" /\ a_pc = "drain"
    /\ chan = <<>>
    /\ ~tx_main
    /\ \A w \in Workers : ~HoldsTx(w)
    /\ hash_order' \in Perms(DOMAIN move_dict)
    /\ sorted' = DictItems(move_dict, hash_order')
    /\ a_pc' = "join"
    /\ UNCHANGED <<mode, overflow_checks, callVars, searchVars, processes, move_dict, tx_main, chan, w_pc,
                   w_results, w_unsent, ret>>

\* An index that gives a null entry where the vector has none.
ResultAtOrNull(v, k) == IF k <= Len(v) THEN <<v[k]>> ELSE <<<<NoMove, 0>>>>

\* results[k - 1]: <<>> stands for the panic of an index out of bounds.
ResultAt(v, k) == IF k <= Len(v) THEN <<v[k]>> ELSE <<>>

\* handle.join().unwrap() for every handle, which panics when the thread
\* has panicked; then the sort, the reverse and uci(&results[0].0).
AggReturn ==
    /\ mode = "search_tree" /\ a_pc = "join"
    /\ IF \E w \in Workers : w_pc[w] = "panicked"
       THEN a_pc' = "panic" /\ UNCHANGED <<sorted, ret>>
       ELSE /\ sorted' = SortResults(sorted)
            /\ LET first == ResultAt(sorted', 1)
               IN IF first = <<>>
                  THEN a_pc' = "panic" /\ UNCHANGED ret
                  ELSE a_pc' = "done" /\ ret' = first[1][1]
    /\ UNCHANGED <<mode, overflow_checks, callVars, searchVars, processes, move_dict, hash_order, tx_main, chan, w_pc,
                   w_results, w_unsent>>

\* A worker's tree.search(board, limit): it panics on a position without
\* legal moves (select_branch on the root) and when it expands a move to a
\* position on which evaluate panics; otherwise it returns its results.
WorkerSearch(w) ==
    /\ mode = "search_tree" /\ w_pc[w] = "search"
    /\ IF LegalMoves(state) = {}
       THEN w_pc' = [w_pc EXCEPT ![w] = "panicked"] /\ UNCHANGED <<w_results, w_unsent>>
       ELSE \E r \in SearchReturns(state) :
              IF SearchPanics(state, r)
              THEN w_pc' = [w_pc EXCEPT ![w] = "panicked"] /\ UNCHANGED <<w_results, w_unsent>>
              ELSE /\ w_results' = [w_results EXCEPT ![w] = r]
                   /\ w_unsent' = [w_unsent EXCEPT ![w] = DOMAIN r]
                   /\ w_pc' = [w_pc EXCEPT ![w] = "send"]
    /\ UNCHANGED <<mode, overflow_checks, callVars, searchVars, processes, a_pc, move_dict, hash_order, tx_main, chan,
                   sorted, ret>>

\* t_tx.lock().unwrap().send(result).unwrap(): fails once the receiver is gone.
WorkerSend(w) ==
    /\ mode = "search_tree" /\ w_pc[w] = "send"
    /\ w_unsent[w] # {}
    /\ IF a_pc = "panic"
       THEN w_pc' = [w_pc EXCEPT ![w] = "panicked"] /\ UNCHANGED <<chan, w_unsent>>
       ELSE /\ \E m \in w_unsent[w] :
                /\ chan' = Append(chan, <<m, w_results[w][m]>>)
                /\ w_unsent' = [w_unsent EXCEPT ![w] = @ \ {m}]
            /\ UNCHANGED w_pc
    /\ UNCHANGED <<mode, overflow_checks, callVars, searchVars, processes, a_pc, move_dict, hash_order, tx_main,
                   w_results, sorted, ret>>

\* The closure ends: the worker's clone of tx_mtx is dropped.
WorkerExit(w) ==
    /\ mode = "search_tree" /\ w_pc[w] = "send"
    /\ w_unsent[w] = {}
    /\ w_pc' = [w_pc EXCEPT ![w] = "exit"]
    /\ UNCHANGED <<mode, overflow_checks, callVars, searchVars, processes, a_pc, move_dict, hash_order, tx_main, chan,
                   w_results, w_unsent, sorted, ret>>

NextAgg ==
    \/ AggCall \/ AggSpawn \/ AggDropTx \/ AggRecv \/ AggCollect \/ AggReturn
    \/ \E w \in Workers : WorkerSearch(w) \/ WorkerSend(w) \/ WorkerExit(w)

\* -------------------------------------------------------------------- uci
\* A ChessMove of the chess crate: source and destination squares as indices
\* 0..63 and the piece a pawn is promoted to, if any.
NumSquares == 64
Squares == 0..(NumSquares - 1)
NoPiece == "none"
PromotionPieces == {"Knight", "Bishop", "Rook", "Queen"}
ChessMove(source, dest, promotion) == [source |-> source, dest |-> dest, promotion |-> promotion]

\* The vector `squares` of uci.  A string is the sequence of its characters.
SquareNames ==
    <<<<"A", "1">>, <<"B", "1">>, <<"C", "1">>, <<"D", "1">>, <<"E", "1">>, <<"F", "1">>, <<"G", "1">>, <<"H", "1">>,
       <<"A", "2">>, <<"B", "2">>, <<"C", "2">>, <<"D", "2">>, <<"E", "2">>, <<"F", "2">>, <<"G", "2">>, <<"H", "2">>,
       <<"A", "3">>, <<"B", "3">>, <<"C", "3">>, <<"D", "3">>, <<"E", "3">>, <<"F", "3">>, <<"G", "3">>, <<"H", "3">>,
       <<"A", "4">>, <<"B", "4">>, <<"C", "4">>, <<"D", "4">>, <<"E", "4">>, <<"F", "4">>, <<"G", "4">>, <<"H", "4">>,
       <<"A", "5">>, <<"B", "5">>, <<"C", "5">>, <<"D", "5">>, <<"E", "5">>, <<"F", "5">>, <<"G", "5">>, <<"H", "5">>,
       <<"A", "6">>, <<"B", "6">>, <<"C", "6">>, <<"D", "6">>, <<"E", "6">>, <<"F", "6">>, <<"G", "6">>, <<"H", "6">>,
       <<"A", "7">>, <<"B", "7">>, <<"C", "7">>, <<"D", "7">>, <<"E", "7">>, <<"F", "7">>, <<"G", "7">>, <<"H", "7">>,
       <<"A", "8">>, <<"B", "8">>, <<"C", "8">>, <<"D", "8">>, <<"E", "8">>, <<"F", "8">>, <<"G", "8">>, <<"H", "8">>>>

\* str::to_lowercase, on the characters that occur in `squares`.
UpperToLower ==
    [c \in {"A", "B", "C", "D", "E", "F", "G", "H"} |->
        CASE c = "A" -> "a" [] c = "B" -> "b" [] c = "C" -> "c" [] c = "D" -> "d"
          [] c = "E" -> "e" [] c = "F" -> "f" [] c = "G" -> "g" [] c = "H" -> "h"]

\* A conversion that leaves the characters as they are.
ToLowercaseNot(str) == str

ToLowercase(str) ==
    [k \in 1..Len(str) |-> IF str[k] \in DOMAIN UpperToLower THEN UpperToLower[str[k]] ELSE str[k]]

\* uci (lib.rs, main.rs and helpers.rs hold the same function): the names of
\* the source and the destination square; action.get_promotion() is not read.
Uci(mv) ==
    ToLowercase(SquareNames[mv.source + 1]) \o ToLowercase(SquareNames[mv.dest + 1])

\* The legal moves of a pawn ending, White to move: king on e1, a pawn on
\* the seventh rank of file `file` (c..h) with the square ahead free, the
\* black king on a8.  The king has five moves, the pawn its four promotions.
KingSquare == 4
PawnEndingMoves(file) ==
    {ChessMove(KingSquare, d, NoPiece) : d \in {3, 5, 11, 12, 13}}
      \cup {ChessMove(48 + file, 56 + file, piece) : piece \in PromotionPieces}

\* What uci is called with: the legal moves of a position, formatted one
\* after the other (lib.rs:94-98, main.rs:50-52), or one move between any
\* two squares.
UciInputs ==
    {PawnEndingMoves(file) : file \in 2..7}
      \cup {{ChessMove(src, dst, NoPiece)} : src \in Squares, dst \in Squares}

UciCall ==
    /\ mode = "uci" /\ call_pc = "call"
    /\ call_ret' = [mv \in call_arg |-> Uci(mv)]
    /\ call_pc' = "done"
    /\ UNCHANGED <<mode, overflow_checks, searchVars, aggVars, call_arg>>

\* ------------------------------------------------- calls of the evaluator
\* A side has its king and at most ten rooks: two, and one for each of its
\* eight pawns; a pawn still on the board is one rook fewer.
MaxRooks == 10
LegalMaterial(s) ==
    /\ (s.w - 1) + Pawns(s, "w") <= MaxRooks
    /\ (s.b - 1) + Pawns(s, "b") <= MaxRooks

\* The positions of the abstract game: every material, either side to move,
\* in check or not, ongoing or ended.  Check and the two endings are given by
\* a side that has a piece besides its king.
Positions ==
    {s \in {BoardPawn(stm, w, b, chk, pawn) :
               stm \in {"w", "b"}, w \in 1..(MaxRooks + 1), b \in 1..(MaxRooks + 1),
               chk \in BOOLEAN, pawn \in {NoPawn, "w", "b"}}
            \cup {Board(stm, w, b, st = "Checkmate", st) :
                    stm \in {"w", "b"}, w \in 1..(MaxRooks + 1), b \in 1..(MaxRooks + 1),
                    st \in {"Checkmate", "Stalemate"}} :
        /\ LegalMaterial(s)
        /\ (s.chk \/ Status(s) # "Ongoing") => Opp(s) > 1}

\* evaluator.priors(state)
PriorsCall ==
    /\ mode = "priors" /\ call_pc = "call"
    /\ call_ret' = Priors(call_arg)
    /\ call_pc' = "done"
    /\ UNCHANGED <<mode, overflow_checks, searchVars, aggVars, call_arg>>

\* evaluator.evaluate(state)
EvaluateCall ==
    /\ mode = "evaluate" /\ call_pc = "call"
    /\ IF EvaluatePanics(call_arg)
       THEN call_pc' = "panic" /\ UNCHANGED call_ret
       ELSE call_pc' = "done" /\ call_ret' = Evaluate(call_arg)
    /\ UNCHANGED <<mode, overflow_checks, searchVars, aggVars, call_arg>>

NextCalls == UciCall \/ PriorsCall \/ EvaluateCall

\* ------------------------------------- the earlier source (botfjord-rust)
\* src/botfjord-rust holds an earlier Tree::search: no fast path for a single
\* move, no test of the move count before the Dirichlet distribution is
\* built, select_branch unwraps the maximum, every expanded child is linked,
\* the parent is an owning Rc, and the dominance check is (0.5, 1000.0).
\* Mode "earlier" follows one call of it on the variables of Tree::search.
EarlierPawnValue == 100
EarlierRookValue == 500
CheckerPenalty == 75
EarlierRatioMinimum == 1000

\* Evaluator::evaluate of the earlier source: material, negated for Black,
\* less 0.75 for a checker.  The ring and centre terms need squares, which
\* the abstract positions do not carry.
EarlierEvaluate(s) ==
    IF Status(s) = "Checkmate" THEN -MateValue
    ELSE LET white == EarlierRookValue * (s.w - 1) + EarlierPawnValue * Pawns(s, "w")
             black == EarlierRookValue * (s.b - 1) + EarlierPawnValue * Pawns(s, "b")
             v == IF s.stm = "b" THEN black - white ELSE white - black
         IN IF s.chk THEN v - CheckerPenalty ELSE v

\* Dirichlet::new_with_size(noise, len).unwrap(): new_with_size is an Err
\* for a size below two.
EarlierDirichletPanics(s) == noise # 0 /\ Cardinality(LegalMoves(s)) < 2

\* Tree::create_node of the earlier source, where it returns.
EarlierCreateNode(s, a, parent) ==
    LET priors == Priors(s)
        v == EarlierEvaluate(s)
    IN IF noise # 0
       THEN {NodeNew(s, v, MixNoise(priors, z), parent, a) : z \in NoiseSamples(LegalMoves(s))}
       ELSE {NodeNew(s, v, priors, parent, a)}

\* Entry: the root is created whatever the number of legal moves.
EarlierSearchCall ==
    /\ mode = "earlier" /\ pc = "call"
    /\ IF EarlierDirichletPanics(state)
       THEN pc' = "panic" /\ UNCHANGED tree
       ELSE /\ \E root \in EarlierCreateNode(state, NoMove, NoParent) : tree' = (Root :> root)
            /\ pc' = "select"
    /\ evals' = evals + 2
    /\ UNCHANGED <<mode, overflow_checks, callVars, state, limit, noise, node, next_move,
                   child_node, action, value, i, results, iters, visited, aggVars>>

\* select_branch: max_by_key(..).unwrap() panics on a node without moves.
EarlierSelectBranch ==
    /\ mode = "earlier" /\ pc = "select"
    /\ IF NodeMoves(tree[node]) = {}
       THEN pc' = "panic" /\ UNCHANGED next_move
       ELSE \E m \in SelectCandidates(tree[node]) : next_move' = m /\ pc' = "descend"
    /\ UNCHANGED <<mode, overflow_checks, callVars, state, limit, noise, tree, node,
                   child_node, action, value, i, results, iters, evals, visited, aggVars>>

EarlierDescend ==
    /\ mode = "earlier" /\ pc = "descend"
    /\ HasChild(tree[node], next_move)
    /\ node' = GetChild(tree[node], next_move)
    /\ pc' = "select"
    /\ UNCHANGED <<mode, overflow_checks, callVars, state, limit, noise, tree, next_move,
                   child_node, action, value, i, results, iters, evals, visited, aggVars>>

\* Expansion: the child is created and linked, whatever its status.
EarlierExpand ==
    /\ mode = "earlier" /\ pc = "descend"
    /\ ~HasChild(tree[node], next_move)
    /\ LET new_state == MakeMove(tree[node].state, next_move)
           id == Append(node, next_move)
       IN IF EarlierDirichletPanics(new_state)
          THEN /\ pc' = "panic"
               /\ UNCHANGED <<child_node, tree, action, value>>
          ELSE /\ \E child \in EarlierCreateNode(new_state, next_move, node) :
                    /\ child_node' = <<child>>
                    /\ tree' = (id :> child)
                                  @@ [tree EXCEPT ![node] = AddChild(@, next_move, id)]
                    /\ action' = next_move
                    /\ value' = Flip(child.value)
               /\ pc' = "backprop"
    /\ evals' = evals + 2
    /\ UNCHANGED <<mode, overflow_checks, callVars, state, limit, noise, node, next_move,
                   i, results, iters, visited, aggVars>>

\* One turn of the backpropagation loop: it ends at the node without
\* incoming move or without parent.
EarlierBackprop ==
    /\ mode = "earlier" /\ pc = "backprop"
    /\ tree' = [tree EXCEPT ![node] = RecordVisit(@, action, value)]
    /\ visited' = Append(visited, [node |-> node, action |-> action, value |-> value])
    /\ IF tree[node].last_move = NoMove \/ tree[node].parent = NoParent
       THEN /\ pc' = "check"
            /\ iters' = iters + 1
            /\ UNCHANGED <<node, action, value>>
       ELSE /\ action' = tree[node].last_move
            /\ node' = tree[node].parent
            /\ value' = Flip(value)
            /\ UNCHANGED <<pc, iters>>
    /\ UNCHANGED <<mode, overflow_checks, callVars, state, limit, noise, next_move,
                   child_node, i, results, evals, aggVars>>

\* check_visit_counts reads branches[1]: on a root with a single branch the
\* index is out of bounds.  With the fast path of the later source search
\* never gets there with such a root; the earlier one does.
CheckVisitCountsPanics(n) == Cardinality(NodeMoves(n)) < 2

\* The stop checks of the earlier source: check_visit_ratio(0.5, 1000.0).
EarlierCheckStop ==
    /\ mode = "earlier" /\ pc = "check"
    /\ \E expired \in BOOLEAN :
        LET root == tree[Root]
            byRatio == CheckVisitRatio(root, 5, EarlierRatioMinimum)
            indexed == ~byRatio /\ NodesActive(limit) /\ i < limit.nodes
            byNodes == /\ ~byRatio
                       /\ NodesActive(limit)
                       /\ (i >= limit.nodes \/ CheckVisitCounts(root, limit.nodes))
            counted == ~byRatio /\ NodesActive(limit) /\ ~byNodes
            byTime == ~byRatio /\ ~byNodes /\ TimeActive(limit) /\ expired
        IN IF indexed /\ CheckVisitCountsPanics(root)
           THEN /\ pc' = "panic"
                /\ UNCHANGED <<i, results, node, child_node>>
           ELSE
           /\ i' = IF counted THEN FInc(i) ELSE i
           /\ IF byRatio \/ byNodes \/ byTime
              THEN /\ results' \in CollectResults(root)
                   /\ pc' = "done"
                   /\ UNCHANGED <<node, child_node>>
              ELSE /\ iters < MaxIter
                   /\ pc' = "select"
                   /\ node' = Root
                   /\ child_node' = <<>>
                   /\ UNCHANGED results
    /\ visited' = <<>>
    /\ UNCHANGED <<mode, overflow_checks, callVars, state, limit, noise, tree, next_move,
                   action, value, iters, evals, aggVars>>

NextEarlier ==
    \/ EarlierSearchCall \/ EarlierSelectBranch \/ EarlierDescend
    \/ EarlierExpand \/ EarlierBackprop \/ EarlierCheckStop

\* ------------------------------------------- genetic.rs: the next generation
\* Survival rates are taken in tenths, 0.0 to 1.0.
RateScale == 10
SurvivalRates == 0..RateScale

\* (population_size as f32 - (population_size as f32 * survival_rate)) as usize.
\* The cast truncates.  For the sizes followed here and rates in tenths the
\* f32 product and difference give the same whole part as exact arithmetic
\* (the first size where they differ is 25, at rate 0.6).
NumberOfChildren(population_size, survival_rate) ==
    (population_size * (RateScale - survival_rate)) \div RateScale

\* generate_new_population, from the population sorted by fitness, fittest
\* first (pop_and_fit after sort_by_key and reverse; the fitness comes from
\* games played with the search and is not followed).  Individuals are
\* their ranks.  Returned: the vector `children`, two children per pair
\* zipped from group_a and group_b, then the survivors.
GenerateNewPopulation(pop_and_fit, survival_rate) ==
    LET population_size == Len(pop_and_fit)
        number_of_children == NumberOfChildren(population_size, survival_rate)
        reproducers == SubSeq(pop_and_fit, 1, Min({number_of_children, population_size}))
        half == number_of_children \div 2
        group_a == SubSeq(reproducers, 1, Min({half, Len(reproducers)}))
        group_b == SubSeq(reproducers, Len(group_a) + 1, Len(reproducers))
        pairs == Min({Len(group_a), Len(group_b)})
        crossed == [k \in 1..(2 * pairs) |->
                      [kind |-> "child",
                       a |-> group_a[(k + 1) \div 2],
                       b |-> group_b[(k + 1) \div 2]]]
        survivors == [k \in 1..(population_size - number_of_children) |->
                        [kind |-> "survivor", a |-> pop_and_fit[k], b |-> pop_and_fit[k]]]
    IN crossed \o survivors

\* One call: assert_eq!(children.len(), population_size) panics when the
\* lengths differ.
GenerateNewPopulationCall ==
    /\ mode = "generate_new_population" /\ call_pc = "call"
    /\ LET children == GenerateNewPopulation(call_arg.population, call_arg.survival_rate)
       IN IF Len(children) = Len(call_arg.population)
          THEN call_pc' = "done" /\ call_ret' = children
          ELSE call_pc' = "panic" /\ call_ret' = <<>>
    /\ UNCHANGED <<mode, overflow_checks, call_arg, searchVars, aggVars>>

\* ------------------------------------------------------------ specification
InitSearch ==
    /\ pc = "call"
    /\ tree = [p \in {} |-> 0]
    /\ node = Root
    /\ next_move = NoMove
    /\ child_node = <<>>
    /\ action = NoMove
    /\ value = 0
    /\ i = 0
    /\ results = <<>>
    /\ iters = 0
    /\ evals = 0
    /\ visited = <<>>

\* No call of a pure function is followed.
InitCall ==
    /\ call_pc = "idle"
    /\ call_arg = <<>>
    /\ call_ret = <<>>

InitAgg ==
    /\ a_pc = "call"
    /\ move_dict = [a \in {} |-> 0]
    /\ hash_order = <<>>
    /\ tx_main = TRUE
    /\ chan = <<>>
    /\ w_pc = [w \in Workers |-> "unspawned"]
    /\ w_results = [w \in Workers |-> [m \in {} |-> 0]]
    /\ w_unsent = [w \in Workers |-> {}]
    /\ sorted = <<>>
    /\ ret = NoMove

\* Only after a promotion can a position weigh more than the starting
\* position; for a root without a pawn the build's overflow checks decide
\* nothing and the model follows one build.  search_tree is followed on the
\* heavy position in the build with overflow checks; in the other build it
\* runs there as on any position with two legal moves.
OverflowBuilds(m, s) ==
    IF s.pawn = NoPawn THEN {FALSE}
    ELSE IF m = "search_tree" THEN {TRUE}
    ELSE BOOLEAN

\* The heavy position is searched without noise: the overflow does not
\* depend on the priors.
NoiseLevels(s) == IF s = HeavyRoot THEN {0} ELSE {0, NoiseAlpha}

Init ==
    /\ mode \in {"search", "search_tree"}
    /\ InitSearch
    /\ InitAgg
    /\ IF mode = "search"
       THEN /\ state \in RootStates
            /\ limit \in Limits
            /\ noise \in NoiseLevels(state)
            /\ processes = 0
       ELSE /\ state \in AggRootStates
            /\ limit = LimitNew(1, 0)
            /\ noise = NoiseAlpha
            /\ processes \in 0..MaxProcesses
    /\ overflow_checks \in OverflowBuilds(mode, state)
    /\ InitCall

Next == NextSearch \/ NextAgg

Spec == Init /\ [][Next]_vars

\* ------------------------------------------- the stop checks on a long search
\* The dominance heuristic needs a root visited 50000 times, which takes as
\* many iterations.  Mode "checks" starts where such a search stands when
\* an iteration is complete: at the stop checks, with a root over two moves
\* whose counters are around the threshold.  Only the stop checks are
\* followed from there, and they read the root's counters, the limit and
\* `i`; the tree below the root is left out.
StopState == Board("b", 2, 1, FALSE, "Ongoing")

StopRoot(q, x) ==
    [NodeNew(StopState, Evaluate(StopState), Priors(StopState), NoParent, NoMove)
       EXCEPT !.branches["q"].visit_count = q,
              !.branches["x"].visit_count = x,
              !.total_visit_count = 1 + q + x]

\* The checks after the iteration before let the search go on: the root
\* was short of the minimum, or its leader did not dominate.
NotStoppedBefore(q, x) ==
    \E q0 \in {q - 1, q}, x0 \in {x - 1, x} :
       /\ q0 + x0 = q + x - 1 /\ q0 >= 0 /\ x0 >= 0
       /\ ~CheckVisitRatio(StopRoot(q0, x0), 9, RatioMinimum)

StopRoots ==
    {StopRoot(q, total - 1 - q) :
        total \in (RatioMinimum - StopSpread)..(RatioMinimum + StopSpread),
        q \in ((9 * RatioMinimum) \div 10 - StopSpread)
                ..((9 * RatioMinimum) \div 10 + StopSpread + 1)}

InitStop ==
    /\ mode = "checks"
    /\ overflow_checks = FALSE
    /\ InitAgg
    /\ InitCall
    /\ processes = 0
    /\ state = StopState
    /\ noise = 0
    /\ pc = "check"
    /\ \E root \in StopRoots :
          /\ NotStoppedBefore(root.branches["q"].visit_count, root.branches["x"].visit_count)
          /\ tree = (Root :> root)
          /\ iters = root.total_visit_count - 1
          /\ evals = 2 * root.total_visit_count
          /\ \E t \in {0, 1}, n \in {0, 2 * RatioMinimum} :
                /\ limit = LimitNew(t, n)
                /\ i = IF n = 0 THEN 0 ELSE iters - 1
    /\ node = Root
    /\ next_move = NoMove
    /\ child_node = <<>>
    /\ action = NoMove
    /\ value = 0
    /\ results = <<>>
    /\ visited = <<>>

\* Tree::search alone: from its call, and from the stop checks of a long
\* search.
InitOfSearch == Init /\ mode = "search"

SpecSearch == InitOfSearch /\ [][NextSearch]_vars

InitOfStop == InitOfSearch \/ InitStop

SpecStop == InitOfStop /\ [][NextSearch]_vars

\* search_tree alone: the aggregator and its workers.
InitOfTree == Init /\ mode = "search_tree"

SpecTree == InitOfTree /\ [][NextAgg]_vars

\* search_tree under fair scheduling: the calling thread and every worker
\* thread take their next step when they can.  A worker's search returns
\* because its time budget is positive (limit.time = 1 in this mode) and the
\* loop looks at the clock after every iteration; a send on the unbounded
\* channel does not block, and the mutex is held for the one statement.
MainThread == AggCall \/ AggSpawn \/ AggDropTx \/ AggRecv \/ AggCollect \/ AggReturn
WorkerThread(w) == WorkerSearch(w) \/ WorkerSend(w) \/ WorkerExit(w)
FairThreads == WF_vars(MainThread) /\ \A w \in Workers : WF_vars(WorkerThread(w))

\* Of the two positions with two legal moves the heavy one is followed
\* here: its workers send the same number of pairs as on the other one, and
\* some of them panic.
InitOfFairTree == InitOfTree /\ (Cardinality(LegalMoves(state)) = 2 => state = HeavyRoot)

SpecTreeFair == InitOfFairTree /\ [][NextAgg]_vars /\ FairThreads

\* uci, priors and evaluate alone: one call on each input.
InitOfCalls ==
    /\ mode \in {"uci", "priors", "evaluate"}
    /\ InitSearch
    /\ InitAgg
    /\ state = StopState
    /\ limit = LimitNew(0, 0)
    /\ noise = 0
    /\ processes = 0
    /\ call_pc = "call"
    /\ call_ret = <<>>
    /\ call_arg \in (IF mode = "uci" THEN UciInputs ELSE Positions)
    /\ overflow_checks \in (IF mode = "evaluate" /\ PhaseOverflows(call_arg)
                              THEN BOOLEAN ELSE {FALSE})

SpecCalls == InitOfCalls /\ [][NextCalls]_vars

\* One call of generate_new_population, for every population size up to
\* MaxPopulation and every survival rate.
InitOfGenetic ==
    /\ mode = "generate_new_population"
    /\ InitSearch
    /\ InitAgg
    /\ state = StopState
    /\ limit = LimitNew(0, 0)
    /\ noise = 0
    /\ processes = 0
    /\ overflow_checks = FALSE
    /\ call_pc = "call"
    /\ \E n \in 0..MaxPopulation : \E r \in SurvivalRates :
          call_arg = [population |-> [k \in 1..n |-> k], survival_rate |-> r]
    /\ call_ret = <<>>

SpecGenetic == InitOfGenetic /\ [][GenerateNewPopulationCall]_vars

\* One call of the earlier Tree::search.  Its evaluator has no integer
\* arithmetic to overflow: one build is followed.
InitOfEarlier ==
    /\ mode = "earlier"
    /\ InitSearch
    /\ InitAgg
    /\ InitCall
    /\ state \in RootStates
    /\ limit \in Limits
    /\ noise \in NoiseLevels(state)
    /\ processes = 0
    /\ overflow_checks = FALSE

SpecEarlier == InitOfEarlier /\ [][NextEarlier]_vars

\* ================================================================== claims
SumVisits(n) == SumOver([a \in NodeMoves(n) |-> n.branches[a].visit_count], NodeMoves(n))
SignPow(k) == IF k % 2 = 0 THEN 1 ELSE -1
LiveNodes == {tree[p] : p \in DOMAIN tree} \cup {child_node[k] : k \in 1..Len(child_node)}
NonRootNodes ==
    {tree[p] : p \in (DOMAIN tree) \ {Root}} \cup {child_node[k] : k \in 1..Len(child_node)}

RECURSIVE SumVisitsOfPairs(_)
SumVisitsOfPairs(s) == IF s = <<>> THEN 0 ELSE s[1][2] + SumVisitsOfPairs(Tail(s))

\* What worker w reports for move m (nothing before its search returned).
Reported(w, m) == IF m \in DOMAIN w_results[w] THEN AsUsize(w_results[w][m]) ELSE 0
ReportedByAll(m) == SumOver([w \in Workers |-> Reported(w, m)], Workers)
Unsent(m) == SumOver([w \in Workers |-> IF m \in w_unsent[w] THEN Reported(w, m) ELSE 0], Workers)
RECURSIVE InFlight(_, _)
InFlight(c, m) ==
    IF c = <<>> THEN 0
    ELSE (IF c[1][1] = m THEN AsUsize(c[1][2]) ELSE 0) + InFlight(Tail(c), m)

\* C1: every node of the tree, and the leaf just created, has
\* total_visit_count = 1 + the sum of the visit counts of its branches.
C1_BranchAccounting ==
    mode = "search" => \A n \in LiveNodes : n.total_visit_count = 1 + SumVisits(n)

\* C1 witness: two iterations are complete and a node below the root has
\* been visited through one of its branches.
C1_Witness ==
    /\ mode = "search" /\ pc = "check" /\ iters >= 2
    /\ \E p \in (DOMAIN tree) \ {Root} : tree[p].total_visit_count >= 2

\* C2: the record_visit made k plies above the node the leaf was expanded
\* from adds (-1)^(k+1) * L to the total_value of the branch the descent
\* followed there, L being the evaluator's value of the new leaf.
C2_SignFlip ==
    [][(mode = "search" /\ pc = "backprop") =>
        LET leaf == child_node[1]
            path == Append(leaf.parent, leaf.last_move)
            k == Len(leaf.parent) - Len(node)
            m == path[Len(node) + 1]
        IN /\ node = SubSeq(path, 1, Len(node))
           /\ leaf.value = Evaluate(leaf.state)
           /\ tree'[node].branches[m].total_value
                = tree[node].branches[m].total_value + SignPow(k + 1) * leaf.value
           /\ \A b \in NodeMoves(tree[node]) \ {m} :
                tree'[node].branches[b].total_value = tree[node].branches[b].total_value]_vars

\* C2 witness: a backpropagation over three plies, with a leaf value that
\* is not zero, has reached the root.
C2_Witness ==
    /\ mode = "search" /\ pc = "check"
    /\ Len(visited) = 3
    /\ child_node[1].value # 0
    /\ visited[3].node = Root

\* C3: every node stored in a children map has an Ongoing position, no
\* branch that leads to a terminal position has a child, and the leaf made
\* for such a branch is not in the tree.
C3_TerminalNeverLinked ==
    mode = "search" =>
      /\ \A p \in DOMAIN tree : \A m \in DOMAIN tree[p].children :
            /\ tree[p].children[m] \in DOMAIN tree
            /\ Status(tree[tree[p].children[m]].state) = "Ongoing"
      /\ \A p \in DOMAIN tree : \A m \in NodeMoves(tree[p]) :
            Status(MakeMove(tree[p].state, m)) # "Ongoing" => ~HasChild(tree[p], m)
      /\ \A k \in 1..Len(child_node) :
            Status(child_node[k].state) # "Ongoing" =>
               Append(child_node[k].parent, child_node[k].last_move) \notin DOMAIN tree

\* C3 witness: a branch that leads to a terminal position has been selected
\* twice, and the leaf of the second time is at hand, unlinked.
C3_Witness ==
    /\ mode = "search" /\ pc = "check"
    /\ Status(child_node[1].state) # "Ongoing"
    /\ tree[child_node[1].parent].branches[child_node[1].last_move].visit_count >= 2

\* C4: with noise every node but the root carries the evaluator's priors.
C4_NoiseOnlyAtRoot ==
    (mode = "search" /\ noise # 0) =>
       \A n \in NonRootNodes : \A m \in NodeMoves(n) :
          n.branches[m].prior = Priors(n.state)[m]

\* C5: on a position with one legal move search returns [(move, 1.0)]
\* straight from the call: no node, no evaluator call, no iteration; and
\* search_tree returns that move.
C5_SingleMoveFastPath ==
    Cardinality(LegalMoves(state)) = 1 =>
      LET only == CHOOSE m \in LegalMoves(state) : TRUE
      IN /\ mode = "search" =>
              /\ pc \in {"call", "done"}
              /\ tree = [p \in {} |-> 0]
              /\ evals = 0 /\ iters = 0 /\ i = 0
              /\ pc = "done" => results = <<<<only, 1>>>>
         /\ mode = "search_tree" =>
              /\ a_pc # "panic"
              /\ (a_pc = "done" /\ processes >= 1) => ret = only

\* C5 witness: the fast path has returned under a limit that stops nothing.
C5_Witness ==
    /\ mode = "search" /\ pc = "done"
    /\ Cardinality(LegalMoves(state)) = 1
    /\ limit = LimitNew(0, 0)

\* C6: with two or more legal moves search returns one pair per legal move
\* of the root, each with the visit count of its root branch, and the
\* visits add up to the iterations completed, root total_visit_count - 1.
C6_ResultsAreRootVisits ==
    (mode = "search" /\ pc = "done" /\ Cardinality(LegalMoves(state)) >= 2) =>
      /\ Len(results) = Cardinality(LegalMoves(state))
      /\ {results[k][1] : k \in 1..Len(results)} = LegalMoves(state)
      /\ \A k \in 1..Len(results) :
            results[k][2] = tree[Root].branches[results[k][1]].visit_count
      /\ SumVisitsOfPairs(results) = iters
      /\ iters = tree[Root].total_visit_count - 1

\* C6 witness: a search over three moves returned after two iterations or
\* more, one move never visited.
C6_Witness ==
    /\ mode = "search" /\ pc = "done" /\ iters >= 2
    /\ Cardinality(LegalMoves(state)) >= 3
    /\ \E k \in 1..Len(results) : results[k][2] = 0

\* C7: once the receive loop has ended, the aggregate holds for every legal
\* move the sum of what the workers reported for it; nothing is left in the
\* channel or unsent.
C7_AggregateIsSum ==
    (mode = "search_tree" /\ a_pc \in {"join", "done"}) =>
      /\ DOMAIN move_dict = LegalMoves(state)
      /\ chan = <<>>
      /\ \A w \in 1..processes : w_unsent[w] = {} /\ w_pc[w] \in {"exit", "panicked"}
      /\ \A m \in DOMAIN move_dict :
            move_dict[m] = SumOver([w \in 1..processes |-> Reported(w, m)], 1..processes)

\* C7 witness: two workers reported a visit for the same move.
C7_Witness ==
    /\ mode = "search_tree" /\ a_pc = "done" /\ processes = 2
    /\ \E m \in DOMAIN move_dict : move_dict[m] = 2

\* C8: the move returned has an aggregate at least as large as that of
\* every legal move.
C8_ReturnsMaximum ==
    (mode = "search_tree" /\ a_pc = "done") =>
      /\ ret \in DOMAIN move_dict
      /\ \A m \in DOMAIN move_dict : move_dict[ret] >= move_dict[m]

\* C8 witness: a move was returned that beat another one.
C8_Witness ==
    /\ mode = "search_tree" /\ a_pc = "done"
    /\ \E m \in DOMAIN move_dict : move_dict[m] < move_dict[ret]

\* C9: after a search by one worker or more, the returned move is the same
\* for every iteration order of the aggregate map.
C9_TieBrokenByIdentity ==
    (mode = "search_tree" /\ a_pc = "done" /\ processes >= 1) =>
      \A order \in Perms(DOMAIN move_dict) :
         SortResults(DictItems(move_dict, order))[1][1] = ret

\* C10: whatever the order of the sends and receives, every visit a worker
\* reports is in exactly one place (unsent, in the channel, or added to the
\* aggregate), and the move returned is the one that the workers' results
\* and the order of the aggregate map determine.
C10_ArrivalOrderIndependent ==
    mode = "search_tree" =>
      /\ \A m \in DOMAIN move_dict :
            move_dict[m] + InFlight(chan, m) + Unsent(m) = ReportedByAll(m)
      /\ a_pc = "done" =>
            ret = SortResults(DictItems([m \in LegalMoves(state) |-> ReportedByAll(m)],
                                        hash_order))[1][1]

\* C10 witness: the channel holds a pair of each of two workers, for
\* different moves, while both still have a pair to send.
C10_Witness ==
    /\ mode = "search_tree" /\ a_pc = "drain"
    /\ Len(chan) = 2 /\ chan[1][1] # chan[2][1]
    /\ chan[1][2] > 0 /\ chan[2][2] > 0
    /\ w_unsent[1] # {} /\ w_unsent[2] # {}

\* What the workers that returned from their search report for move m.
Completed(w) == w_pc[w] \in {"send", "exit"}
Panicked(w) == w_pc[w] = "panicked"
CallEnded == a_pc \in {"done", "panic"}

\* C11: when a worker has panicked and another one has completed, search_tree
\* returns a move, one of maximum aggregate over the workers that completed.
C11_SurvivorsDecide ==
    (mode = "search_tree" /\ CallEnded
       /\ (\E w \in Workers : Panicked(w)) /\ (\E w \in Workers : Completed(w))) =>
      /\ a_pc = "done"
      /\ ret \in DOMAIN move_dict
      /\ \A m \in DOMAIN move_dict : move_dict[ret] >= move_dict[m]

\* C12: on a position without legal moves search_tree never returns a move,
\* and the step that ends the call ends it in a panic.
C12_TerminalRootIsError ==
    /\ [](mode = "search_tree" /\ LegalMoves(state) = {} => a_pc # "done" /\ ret = NoMove)
    /\ [][(mode = "search_tree" /\ LegalMoves(state) = {} /\ a_pc = "join")
            => a_pc' = "panic"]_vars

\* C12 witness: the call on a stalemate has ended after its workers panicked.
C12_Witness ==
    /\ mode = "search_tree" /\ a_pc = "panic"
    /\ Status(state) = "Stalemate"
    /\ processes = MaxProcesses
    /\ \A w \in 1..processes : Panicked(w)

\* C13: when no worker has completed its search, the call ends in a panic
\* and returns no move.
C13_NoContributionIsError ==
    (mode = "search_tree" /\ CallEnded /\ \A w \in Workers : ~Completed(w)) =>
      a_pc = "panic" /\ ret = NoMove

\* The visit count of the most visited branch of a node.
LeaderVisits(n) == Max({n.branches[a].visit_count : a \in NodeMoves(n)})

\* The root's most visited branch has more than 0.9 of the root's visits,
\* and these are 50000 or more.
Dominated(n) ==
    /\ n.total_visit_count >= RatioMinimum
    /\ LeaderVisits(n) * 10 > 9 * n.total_visit_count

InSearch == mode \in {"search", "checks"}

\* C14: at the stop checks a dominated root stops the search before the
\* node budget is looked at (i is left alone); a root that is not dominated
\* does not stop it: with both limits off the search goes on, and with a
\* node budget a search that goes on has been counted by it.
C14_DominanceFirst ==
    [][(InSearch /\ pc = "check") =>
        LET root == tree[Root]
        IN /\ Dominated(root) => (pc' = "done" /\ i' = i)
           /\ (~Dominated(root) /\ limit.nodes = 0 /\ limit.time = 0) => pc' = "select"
           /\ (~Dominated(root) /\ limit.nodes > 0 /\ pc' = "select") => i' = i + 1]_vars

\* C14 witness: a search under a node budget has stopped on a root of
\* exactly 50000 visits, its counter of iterations not moved by the stop.
C14_Witness ==
    /\ mode = "checks" /\ pc = "done"
    /\ tree[Root].total_visit_count = RatioMinimum
    /\ Dominated(tree[Root])
    /\ limit.nodes > 0 /\ i = iters - 1

\* C15: when the search has stopped ahead of its node budget (no time limit,
\* fewer iterations done than limit.nodes), the leader is ahead of the
\* runner-up by more than the iterations the budget still permitted.
C15_EarlyStopIsSafe ==
    (mode = "search" /\ pc = "done" /\ Cardinality(LegalMoves(state)) >= 2
       /\ limit.nodes > 0 /\ limit.time = 0 /\ iters < limit.nodes) =>
      LET v == SortedVisits(tree[Root], NodeMoves(tree[Root]))
      IN v[1] - v[2] > limit.nodes - iters

\* C16: under a node budget N, on a root with two legal moves or more, no
\* iteration starts once N are complete, and the visits returned add up to
\* N at most.
C16_NodeBudgetBounds ==
    (mode = "search" /\ limit.nodes > 0 /\ Cardinality(LegalMoves(state)) >= 2) =>
      /\ iters <= limit.nodes
      /\ pc \in {"select", "descend", "backprop"} => iters < limit.nodes
      /\ pc = "done" => SumVisitsOfPairs(results) <= limit.nodes

\* C16 witness: a search under a budget of MaxIter + 1 nodes and a time
\* limit has returned after MaxIter iterations.
C16_Witness ==
    /\ mode = "search" /\ pc = "done"
    /\ limit = LimitNew(1, MaxIter + 1)
    /\ iters = MaxIter
    /\ SumVisitsOfPairs(results) = MaxIter

\* C17: with limit.nodes = 0 the counter i stays 0; a step that leaves the
\* loop is owed to the dominance heuristic when both limits are 0, to the
\* heuristic or the node budget when limit.time = 0, and to the heuristic
\* or the time limit when limit.nodes = 0.
C17_ZeroDisables ==
    /\ []((InSearch /\ limit.nodes = 0) => i = 0)
    /\ [][(InSearch /\ pc = "check" /\ pc' = "done") =>
            LET root == tree[Root]
                v == SortedVisits(root, NodeMoves(root))
                byNodes == /\ limit.nodes > 0
                           /\ \/ i >= limit.nodes
                              \/ v[1] >= v[2] + (limit.nodes - root.total_visit_count)
            IN /\ (limit.nodes = 0 /\ limit.time = 0) => Dominated(root)
               /\ limit.time = 0 => (Dominated(root) \/ byNodes)
               /\ limit.nodes = 0 => (Dominated(root) \/ limit.time > 0)]_vars

\* C17 witness: a search with both limits 0 has left its loop.
C17_Witness ==
    /\ mode = "checks" /\ pc = "done"
    /\ limit = LimitNew(0, 0)
    /\ i = 0

\* The root as create_node builds it without noise.
FreshRoot == NodeNew(state, Evaluate(state), Priors(state), NoParent, NoMove)

\* C18: without noise and under a node budget, a search that returned after
\* one iteration has visited every move that select_branch can return on the
\* new root: a second run on the same inputs returns the same counts.
C18_RunsAgree ==
    (mode = "search" /\ noise = 0 /\ limit.nodes > 0 /\ pc = "done"
       /\ Cardinality(LegalMoves(state)) >= 2 /\ iters = 1) =>
      \A m \in SelectCandidates(FreshRoot) : VisitCount(tree[Root], m) = 1

\* C19: no record_visit is made twice on one node in one iteration, and a
\* step leaves every counter of every node as it is or adds exactly 1.
C19_CountsMonotone ==
    /\ [](mode = "search" =>
            \A j, k \in 1..Len(visited) : j # k => visited[j].node # visited[k].node)
    /\ [][mode = "search" =>
            \A p \in DOMAIN tree :
               /\ p \in DOMAIN tree'
               /\ tree'[p].total_visit_count - tree[p].total_visit_count \in {0, 1}
               /\ \A a \in NodeMoves(tree[p]) :
                     tree'[p].branches[a].visit_count - tree[p].branches[a].visit_count
                        \in {0, 1}]_vars

\* C19 witness: after three iterations a root branch has three visits,
\* another one none, and a node below the root has been visited.
C19_Witness ==
    /\ mode = "search" /\ pc = "check" /\ iters = 3
    /\ \E a, b \in NodeMoves(tree[Root]) :
          /\ tree[Root].branches[a].visit_count = 3
          /\ tree[Root].branches[b].visit_count = 0
    /\ \E p \in (DOMAIN tree) \ {Root} : tree[p].total_visit_count > 1

\* C20: every node has a branch for each legal move of its position and no
\* other, and a step changes neither the position, the value, the moves nor
\* the priors of a node.
C20_NodesImmutable ==
    /\ [](mode = "search" => \A n \in LiveNodes : NodeMoves(n) = LegalMoves(n.state))
    /\ [][mode = "search" =>
            \A p \in DOMAIN tree :
               /\ p \in DOMAIN tree'
               /\ tree'[p].state = tree[p].state
               /\ tree'[p].value = tree[p].value
               /\ NodeMoves(tree'[p]) = NodeMoves(tree[p])
               /\ \A a \in NodeMoves(tree[p]) :
                     tree'[p].branches[a].prior = tree[p].branches[a].prior]_vars

\* C20 witness: a node built with noise, below the root, has been visited
\* and has a child.
C20_Witness ==
    /\ mode = "search" /\ noise # 0 /\ pc = "check"
    /\ \E p \in (DOMAIN tree) \ {Root} :
          /\ tree[p].total_visit_count > 1
          /\ DOMAIN tree[p].children # {}
          /\ \E a \in NodeMoves(tree[p]) : tree[p].branches[a].prior # Priors(tree[p].state)[a]

\* C21: on the legal moves of a position uci gives different strings for
\* different moves, moves that differ only in the promotion piece included.
C21_UciInjective ==
    (mode = "uci" /\ call_pc = "done") =>
      \A m1, m2 \in DOMAIN call_ret : call_ret[m1] = call_ret[m2] => m1 = m2

FileLetters == <<"a", "b", "c", "d", "e", "f", "g", "h">>
RankDigits == <<"1", "2", "3", "4", "5", "6", "7", "8">>

\* C22: for source s and destination d in 0..63 uci returns four characters:
\* the file letter of s (s mod 8, a..h), the rank digit of s (s div 8 + 1),
\* then the same for d, the letters in lowercase.
C22_UciSquares ==
    (mode = "uci" /\ call_pc = "done") =>
      \A mv \in DOMAIN call_ret :
         call_ret[mv] = <<FileLetters[(mv.source % 8) + 1], RankDigits[(mv.source \div 8) + 1],
                          FileLetters[(mv.dest % 8) + 1], RankDigits[(mv.dest \div 8) + 1]>>

\* C22 witness: the move from h8 (63) to a1 (0) has been formatted.
C22_Witness ==
    /\ mode = "uci" /\ call_pc = "done"
    /\ call_arg = {ChessMove(63, 0, NoPiece)}
    /\ call_ret[ChessMove(63, 0, NoPiece)] = <<"h", "8", "a", "1">>

\* C23: on a position with a legal move priors returns one value per legal
\* move, none negative, that add up to 1 (1000 thousandths, short of it by
\* less than one thousandth per move for the rounding), also when every
\* move leads to the same difference in pieces.
C23_PriorsDistribution ==
    (mode = "priors" /\ call_pc = "done" /\ LegalMoves(call_arg) # {}) =>
      /\ DOMAIN call_ret = LegalMoves(call_arg)
      /\ \A m \in DOMAIN call_ret : call_ret[m] >= 0
      /\ Abs(SumOver(call_ret, DOMAIN call_ret) - PriorScale) <= Cardinality(LegalMoves(call_arg))

\* C24: evaluate returns -39 on a checkmated position and a value of
\* magnitude below 39 on every other position, whatever its material.
C24_MateDominates ==
    (mode = "evaluate" /\ call_pc # "call") =>
      /\ call_pc = "done"
      /\ IF Status(call_arg) = "Checkmate"
         THEN call_ret = -MateValue
         ELSE Abs(call_ret) < MateValue

\* C25: at every node, a move that gives a checkmated position has
\* total_value = 39 * visit_count on its branch and no entry in children.
C25_MateBranch ==
    mode = "search" =>
      \A p \in DOMAIN tree : \A m \in NodeMoves(tree[p]) :
         Status(MakeMove(tree[p].state, m)) = "Checkmate" =>
            /\ tree[p].branches[m].total_value = MateValue * tree[p].branches[m].visit_count
            /\ ~HasChild(tree[p], m)

\* C25 witness: a mating move has been visited twice at a node that has
\* been through another move as well.
C25_Witness ==
    /\ mode = "search" /\ pc = "check"
    /\ \E p \in DOMAIN tree : \E m \in NodeMoves(tree[p]) :
          /\ Status(MakeMove(tree[p].state, m)) = "Checkmate"
          /\ tree[p].branches[m].visit_count = 2
          /\ tree[p].total_visit_count = 4

\* Every spawned worker has dropped its sender.
SendersDropped == \A w \in 1..processes : w_pc[w] \in {"exit", "panicked"}

\* C26: under fair scheduling every call of search_tree ends, and it ends
\* with a move when the position has a legal move and no worker panics; the
\* receive loop is left only with the channel empty and every sender
\* dropped, and once they are dropped it is left.
C26_EventuallyReturns ==
    /\ <>CallEnded
    /\ [](CallEnded =>
            (a_pc = "done" <=> (LegalMoves(state) # {} /\ \A w \in Workers : ~Panicked(w))))
    /\ [][(a_pc = "drain" /\ a_pc' # "drain") =>
            (a_pc' = "join" /\ chan = <<>> /\ ~tx_main /\ SendersDropped)]_vars
    /\ (a_pc = "drain" /\ SendersDropped) ~> (a_pc # "drain")

\* C26 witness: the call has returned after every one of its workers sent
\* two pairs and dropped its sender.
C26_Witness ==
    /\ mode = "search_tree" /\ a_pc = "done"
    /\ processes = MaxProcesses
    /\ Cardinality(LegalMoves(state)) = 2
    /\ \A w \in 1..processes : w_pc[w] = "exit" /\ w_unsent[w] = {}

\* The counters of a node: its own and those of its branches.
Counters(n) ==
    [total |-> n.total_visit_count,
     visits |-> [a \in NodeMoves(n) |-> n.branches[a].visit_count],
     values |-> [a \in NodeMoves(n) |-> n.branches[a].total_value]]

\* C27: the record_visit calls of an iteration go up the path of the
\* descent: the k-th is made on the node k - 1 plies above the node the leaf
\* was expanded from, on the branch the descent followed there, and the last
\* one on the root.  A step changes counters only by such a call: on one
\* node, one branch of it, by one visit; every other node and branch keeps
\* its counters.
C27_PathOnly ==
    /\ []((mode = "search" /\ pc \in {"backprop", "check"}) =>
            LET leaf == child_node[1]
                path == Append(leaf.parent, leaf.last_move)
                depth == Len(leaf.parent)
            IN /\ Len(visited) <= depth + 1
               /\ \A k \in 1..Len(visited) :
                     /\ visited[k].node = SubSeq(path, 1, depth + 1 - k)
                     /\ visited[k].action = path[depth + 2 - k]
               /\ pc = "backprop" => node = SubSeq(path, 1, depth - Len(visited))
               /\ pc = "check" => (Len(visited) = depth + 1 /\ visited[Len(visited)].node = Root))
    /\ [][mode = "search" =>
            \A p \in DOMAIN tree :
               Counters(tree'[p]) # Counters(tree[p]) =>
                  /\ pc = "backprop" /\ p = node
                  /\ tree'[p].total_visit_count = tree[p].total_visit_count + 1
                  /\ tree'[p].branches[action].visit_count
                        = tree[p].branches[action].visit_count + 1
                  /\ \A b \in NodeMoves(tree[p]) \ {action} :
                        tree'[p].branches[b] = tree[p].branches[b]]_vars

\* C27 witness: an iteration has gone two plies deep and up again while a
\* node off its path, visited before, is in the tree.
C27_Witness ==
    /\ mode = "search" /\ pc = "check"
    /\ Len(visited) = 2
    /\ \E p \in DOMAIN tree :
          /\ \A k \in 1..Len(visited) : visited[k].node # p
          /\ p # Append(child_node[1].parent, child_node[1].last_move)

\* C28: in a search on a position with two legal moves or more, the node
\* select_branch is called on is in the tree and has a legal move, and the
\* call does not panic.
C28_SelectHasMoves ==
    /\ []((mode = "search" /\ Cardinality(LegalMoves(state)) >= 2 /\ pc = "select") =>
            /\ node \in DOMAIN tree
            /\ LegalMoves(tree[node].state) # {}
            /\ NodeMoves(tree[node]) # {})
    /\ [][(mode = "search" /\ Cardinality(LegalMoves(state)) >= 2 /\ pc = "select")
            => pc' = "descend"]_vars

\* C28 witness: select_branch is called below the root after a move of the
\* root has led to a position without legal moves.
C28_Witness ==
    /\ mode = "search" /\ pc = "select"
    /\ node # Root
    /\ \E m \in NodeMoves(tree[Root]) :
          /\ LegalMoves(MakeMove(tree[Root].state, m)) = {}
          /\ tree[Root].branches[m].visit_count > 0

\* The (node, move) pairs under which a child is linked.
Links(t) == {l \in (DOMAIN t) \X Moves : l[2] \in DOMAIN t[l[1]].children}

\* C29: a child is linked only under a (node, move) pair that has none: a
\* step keeps every link there is, with the node it leads to; an expansion
\* to an Ongoing position (the call of add_child) happens at a node and move
\* without child and adds a link; the step that adds a link adds one, under
\* the node and move the descent stopped at; and the tree holds the root and
\* at most one node per iteration.
C29_LinksOnlyAdded ==
    /\ []((mode = "search" /\ Root \in DOMAIN tree) =>
            Cardinality(DOMAIN tree) <= 1 + iters + (IF pc = "backprop" THEN 1 ELSE 0))
    /\ [][mode = "search" =>
            /\ \A l \in Links(tree) :
                  /\ l \in Links(tree')
                  /\ tree'[l[1]].children[l[2]] = tree[l[1]].children[l[2]]
                  /\ tree[l[1]].children[l[2]] \in DOMAIN tree
                  /\ tree'[tree[l[1]].children[l[2]]].total_visit_count
                        >= tree[tree[l[1]].children[l[2]]].total_visit_count
            /\ (pc = "descend" /\ pc' = "backprop"
                  /\ Status(MakeMove(tree[node].state, next_move)) = "Ongoing") =>
                  /\ next_move \notin DOMAIN tree[node].children
                  /\ Links(tree') # Links(tree)
            /\ Links(tree') # Links(tree) =>
                  /\ pc = "descend"
                  /\ next_move \notin DOMAIN tree[node].children
                  /\ Links(tree') = Links(tree) \cup {<<node, next_move>>}
                  /\ DOMAIN tree' = (DOMAIN tree) \cup {tree'[node].children[next_move]}
                  /\ tree'[node].children[next_move] \notin DOMAIN tree]_vars

\* C29 witness: three iterations are complete; two of them linked a node,
\* the second below the first, and one linked none.
C29_Witness ==
    /\ mode = "search" /\ pc = "check" /\ iters = 3
    /\ Cardinality(DOMAIN tree) = 3
    /\ \E p \in DOMAIN tree : Len(p) = 2


\* C30: in every tree of a search, the moves a node has children under are
\* moves it has branches for, and the child under move m is a node of the
\* tree whose position is the node's position with m applied, whose incoming
\* move is m and whose parent is the node.
C30_ChildrenConsistent ==
    mode = "search" =>
        \A n \in DOMAIN tree :
            /\ DOMAIN tree[n].children \subseteq DOMAIN tree[n].branches
            /\ \A m \in DOMAIN tree[n].children :
                  /\ tree[n].children[m] \in DOMAIN tree
                  /\ tree[tree[n].children[m]].state = MakeMove(tree[n].state, m)
                  /\ tree[tree[n].children[m]].last_move = m
                  /\ tree[tree[n].children[m]].parent = n

C30_Witness ==
    /\ mode = "search" /\ Root \in DOMAIN tree
    /\ Cardinality(DOMAIN tree[Root].children) >= 2
    /\ \E n \in DOMAIN tree : n # Root /\ DOMAIN tree[n].children # {}


\* C31: in every tree of a search a branch never visited has total_value 0;
\* expected_value is 0 for such a branch and the quotient of total_value by
\* visit_count (rounded down to the unit of values) for any other.
C31_UnvisitedIsZero ==
    mode = "search" =>
        \A n \in DOMAIN tree : \A a \in DOMAIN tree[n].branches :
            LET b == tree[n].branches[a]
                q == ExpectedValue(tree[n], a)
            IN /\ b.visit_count >= 0
               /\ b.visit_count = 0 => (b.total_value = 0 /\ q = 0)
               /\ b.visit_count > 0 =>
                     (q * b.visit_count <= b.total_value
                        /\ b.total_value < (q + 1) * b.visit_count)

C31_Witness ==
    /\ mode = "search" /\ Root \in DOMAIN tree
    /\ \E a, b \in DOMAIN tree[Root].branches :
          /\ tree[Root].branches[a].visit_count = 0
          /\ tree[Root].branches[b].visit_count >= 2
          /\ tree[Root].branches[b].total_value # 0
          /\ ExpectedValue(tree[Root], b) # tree[Root].branches[b].total_value


\* The priors a node was created with are those create_node computes: the
\* evaluator's when noise is 0 or the position has fewer than two legal
\* moves; otherwise there are a sample with one component per legal move and
\* a pairing of the moves with the components, one to one, under which the
\* prior of each move is half the evaluator's prior plus half its component.
CreatedPriors(n) ==
    LET legal == LegalMoves(n.state)
        size == Cardinality(legal)
        p == Priors(n.state)
    IN /\ DOMAIN n.branches = legal
       /\ IF noise = 0 \/ size < 2
          THEN \A m \in legal : n.branches[m].prior = p[m]
          ELSE \E samples \in DirichletSamples(size) : \E order \in Perms(legal) :
                  /\ Len(samples) = size
                  /\ SumOver(samples, 1..size) = PriorScale
                  /\ \A k \in 1..size :
                        2 * n.branches[order[k]].prior \in
                            {p[order[k]] + samples[k], p[order[k]] + samples[k] - 1}

\* C32: every node create_node returns, the root and each expanded child,
\* carries the priors described above, over the legal moves of its position.
C32_NoiseMix ==
    [][mode = "search" =>
         /\ (Root \notin DOMAIN tree /\ Root \in DOMAIN tree') => CreatedPriors(tree'[Root])
         /\ (pc = "descend" /\ pc' = "backprop") => CreatedPriors(child_node'[1])]_vars

\* C32 witness: a search with noise has created a node whose priors are not
\* the evaluator's and holds a child with a single legal move.
C32_Witness ==
    /\ mode = "search" /\ noise # 0 /\ pc = "backprop"
    /\ Cardinality(LegalMoves(child_node[1].state)) = 1
    /\ \A m \in LegalMoves(child_node[1].state) :
          child_node[1].branches[m].prior = Priors(child_node[1].state)[m]
    /\ \E m \in NodeMoves(tree[Root]) : tree[Root].branches[m].prior # Priors(state)[m]


\* C33: the earlier search never calls select_branch on a node without legal
\* moves, and never builds the Dirichlet distribution for a position with
\* fewer than two legal moves, be it the root's or an expanded child's.
C33_EarlierVariantSafe ==
    [][mode = "earlier" =>
         /\ (pc = "select" /\ pc' # "select") => LegalMoves(tree[node].state) # {}
         /\ (pc = "call" /\ pc' # "call" /\ noise # 0) =>
               Cardinality(LegalMoves(state)) >= 2
         /\ (pc = "descend" /\ pc' \notin {"descend", "select"} /\ noise # 0) =>
               Cardinality(LegalMoves(MakeMove(tree[node].state, next_move))) >= 2]_vars


\* C34: generate_new_population returns as many individuals as it was given,
\* for every population size and survival rate: its assert_eq! never fails.
C34_PopulationSizeKept ==
    mode = "generate_new_population" =>
        /\ call_pc # "panic"
        /\ call_pc = "done" => Len(call_ret) = Len(call_arg.population)


\* C35: on a position with two legal moves or more the stop checks are
\* reached only from a backpropagation that has recorded the visit at the
\* root, and search returns from the stop checks only: a search that
\* returns has completed an iteration and the visits it returns add up to 1
\* at least, also when the time limit had expired before the first check.
\* Until the first iteration is complete the search stands at its call, at
\* the selection on the root, at the expansion of a move of the root, or at
\* the backpropagation to the root, which ends the iteration: nothing on
\* the way reads the limit, and only a panic of the evaluator ends it early.
C35_StopAtIterationBoundary ==
    /\ [][(mode = "search" /\ Cardinality(LegalMoves(state)) >= 2) =>
            /\ (pc # "check" /\ pc' = "check") =>
                  /\ pc = "backprop" /\ node = Root
                  /\ iters' = iters + 1
                  /\ tree'[Root].total_visit_count = tree[Root].total_visit_count + 1
            /\ (pc # "done" /\ pc' = "done") => (pc = "check" /\ iters >= 1)
            /\ (iters = 0 /\ pc' = "panic") =>
                  (pc \in {"call", "descend"} /\ overflow_checks)]_vars
    /\ []((mode = "search" /\ Cardinality(LegalMoves(state)) >= 2) =>
            /\ pc = "done" => (iters >= 1 /\ SumVisitsOfPairs(results) = iters)
            /\ iters = 0 =>
                  /\ pc \in {"call", "select", "descend", "backprop", "panic"}
                  /\ pc = "select" => (node = Root /\ SelectCandidates(tree[Root]) # {})
                  /\ pc = "descend" => (node = Root /\ DOMAIN tree[Root].children = {})
                  /\ pc = "backprop" => (node = Root /\ tree[Root].last_move = NoMove))

\* C35 witness: under a time limit alone, search has returned after one
\* iteration: the limit had expired at the first check.
C35_Witness ==
    /\ mode = "search" /\ pc = "done"
    /\ limit = LimitNew(1, 0)
    /\ iters = 1
    /\ SumVisitsOfPairs(results) = 1


\* C36: between iterations (everywhere but inside a backpropagation) the
\* visit count of a branch that has a linked child equals the child's
\* total_visit_count.
C36_BranchMatchesChild ==
    (mode = "search" /\ pc # "backprop") =>
        \A l \in Links(tree) :
            tree[l[1]].branches[l[2]].visit_count
                = tree[tree[l[1]].children[l[2]]].total_visit_count

\* C36 witness: three iterations are complete, and a linked child has been
\* passed through since it was created.
C36_Witness ==
    /\ mode = "search" /\ pc = "check" /\ iters = 3
    /\ \E l \in Links(tree) :
          /\ tree[tree[l[1]].children[l[2]]].total_visit_count >= 2
          /\ tree[l[1]].branches[l[2]].visit_count >= 2
    /\ \E l \in Links(tree) : tree[l[1]].branches[l[2]].visit_count = 1


\* C37: a node has an incoming move exactly when it has a parent reference,
\* and the root alone has neither; the parent a node refers to is a node of
\* the tree (owned through the root, so the weak reference upgrades); a
\* backpropagation step at a node with an incoming move goes to that parent,
\* which holds the node as its child under that move, one ply nearer the
\* root, and the backpropagation ends nowhere but at the root.
C37_ParentLinks ==
    /\ [](mode = "search" =>
            /\ \A n \in LiveNodes :
                  /\ n.last_move # NoMove <=> n.parent # NoParent
                  /\ n.parent # NoParent => n.parent \in DOMAIN tree
            /\ \A p \in DOMAIN tree : tree[p].last_move = NoMove <=> p = Root)
    /\ [][(mode = "search" /\ pc = "backprop") =>
            /\ tree[node].last_move # NoMove =>
                  /\ pc' = "backprop"
                  /\ node' = tree[node].parent
                  /\ node' \in DOMAIN tree
                  /\ Len(node') = Len(node) - 1
                  /\ tree[node'].children[tree[node].last_move] = node
                  /\ action' = tree[node].last_move
            /\ tree[node].last_move = NoMove => (node = Root /\ pc' = "check")]_vars

\* C37 witness: a backpropagation that started two plies below the root
\* has ascended one ply.
C37_Witness ==
    /\ mode = "search" /\ pc = "backprop"
    /\ Len(node) = 1
    /\ Len(visited) = 1
    /\ Len(visited[1].node) = 2
    /\ tree[visited[1].node].parent = node


\* C38: once built, the aggregate has the legal moves of the position as its
\* keys, and keeps them; every pair in the channel and every pair a worker
\* has still to send names one of them, so the receive loop never fails on
\* its lookup.
C38_PairsNameKeys ==
    /\ []((mode = "search_tree" /\ a_pc # "call") =>
            /\ DOMAIN move_dict = LegalMoves(state)
            /\ \A k \in 1..Len(chan) : chan[k][1] \in DOMAIN move_dict
            /\ \A w \in Workers : w_unsent[w] \subseteq DOMAIN move_dict)
    /\ [][(mode = "search_tree" /\ a_pc = "drain") =>
            /\ a_pc' # "panic"
            /\ DOMAIN move_dict' = DOMAIN move_dict
            /\ Len(chan') < Len(chan) => Head(chan)[1] \in DOMAIN move_dict]_vars

\* C38 witness: the aggregator has received a pair with visits, another pair
\* waits in the channel, and a worker on the fast path has sent its pair.
C38_Witness ==
    /\ mode = "search_tree" /\ a_pc = "drain"
    /\ chan # <<>>
    /\ \E m \in DOMAIN move_dict : move_dict[m] > 0
    /\ IsSingleMove(state)

====
